---- MODULE Spec2Model ----
(***************************************************************************)
(* A model of passport-microsoft's strategy (src/lib/strategy.js): the     *)
(* MicrosoftStrategy constructor, authorizationParams, and userProfile     *)
(* with its response handler, together with the part of the inherited     *)
(* OAuth 2.0 strategy the constructor and the callback flow go through.    *)
(***************************************************************************)
EXTENDS Naturals, Sequences, FiniteSets, TLC

VARIABLES
  constructions,  \* the `new MicrosoftStrategy(options, verify)` calls made so far
  lastParams,     \* the last authorizationParams(options) call and what it returned
  strategy,       \* the strategy object the profile fetches and attempts run on
  fetches,        \* one record per userProfile(accessToken, done) invocation
  started,        \* fetch ids in the order userProfile was called
  completed,      \* fetch ids in the order their responses arrived
  attempts        \* one record per authenticate() of a callback request; attempt a
                  \* loads its profile with fetch a

vars == <<constructions, lastParams, strategy, fetches, started, completed, attempts>>

(***************************************************************************)
(* Bounds of the model.                                                    *)
(***************************************************************************)
MaxConstructions == 2
MaxStrLen == 2
MaxFetches == 2

(***************************************************************************)
(* JavaScript values. An object is a function from its own keys to values; *)
(* a key that is not in the object reads as undefined.                     *)
(***************************************************************************)
Undefined == [t |-> "undefined"]
Null == [t |-> "null"]
Bool(b) == [t |-> "boolean", v |-> b]
Num(n) == [t |-> "number", v |-> n]
Str(s) == [t |-> "string", v |-> s]
Obj(f) == [t |-> "object", v |-> f]
Func(n) == [t |-> "function", v |-> n]

EmptyObject == Obj([k \in {} |-> Undefined])

typeof(x) == IF x.t = "null" THEN "object" ELSE x.t

\* ToBoolean: what `if (x)`, `x || y` and `x && y` test.
Truthy(x) ==
  CASE x.t = "undefined" -> FALSE
    [] x.t = "null" -> FALSE
    [] x.t = "boolean" -> x.v
    [] x.t = "number" -> x.v # 0
    [] x.t = "string" -> x.v # ""
    [] OTHER -> TRUE

\* a || b
Or(a, b) == IF Truthy(a) THEN a ELSE b

\* o[k] on an object
Get(o, k) == IF k \in DOMAIN o.v THEN o.v[k] ELSE Undefined

\* k in o
HasKey(o, k) == k \in DOMAIN o.v

\* o with o[k] = x assigned
Put(o, k, x) == Obj([j \in DOMAIN o.v \cup {k} |-> IF j = k THEN x ELSE o.v[j]])

\* The object with the keys of `keys` that `pick` does not map to the marker Absent.
Absent == [t |-> "absent"]
MkObj(keys, pick) ==
  Obj([k \in {j \in keys : pick[j] # Absent} |-> pick[k]])

(***************************************************************************)
(* Exceptions and errors.                                                  *)
(***************************************************************************)
TypeError(msg) == [name |-> "TypeError", message |-> msg]
SyntaxError(msg) == [name |-> "SyntaxError", message |-> msg]
\* passport-oauth2's InternalOAuthError(message, err): err is kept as oauthError.
InternalOAuthError(msg, err) ==
  [name |-> "InternalOAuthError", message |-> msg, oauthError |-> err]
\* Whatever a caller's callback throws when it throws.
CallbackError(n) == [name |-> "CallbackError", message |-> "thrown by done", call |-> n]

Threw(e) == [threw |-> TRUE, error |-> e]
Returned(x) == [threw |-> FALSE, self |-> x]

(***************************************************************************)
(* The inherited constructor, OAuth2Strategy.call(this, options, verify):  *)
(* it rejects a missing verify callback, authorizationURL, tokenURL or     *)
(* clientID and otherwise builds the OAuth 2.0 client from the options.    *)
(***************************************************************************)
OAuth2Strategy(options, verify) ==
  IF ~Truthy(verify)
    THEN Threw(TypeError("OAuth2Strategy requires a verify callback"))
  ELSE IF ~Truthy(Get(options, "authorizationURL"))
    THEN Threw(TypeError("OAuth2Strategy requires a authorizationURL option"))
  ELSE IF ~Truthy(Get(options, "tokenURL"))
    THEN Threw(TypeError("OAuth2Strategy requires a tokenURL option"))
  ELSE IF ~Truthy(Get(options, "clientID"))
    THEN Threw(TypeError("OAuth2Strategy requires a clientID option"))
  ELSE Returned([name |-> "oauth2",
                 _verify |-> verify,
                 _scopeSeparator |-> Get(options, "scopeSeparator"),
                 _oauth2 |-> [_clientId |-> Get(options, "clientID"),
                              _authorizeUrl |-> Get(options, "authorizationURL"),
                              _accessTokenUrl |-> Get(options, "tokenURL"),
                              _customHeaders |-> Get(options, "customHeaders"),
                              _useAuthorizationHeaderForGET |-> FALSE]])

(***************************************************************************)
(* function MicrosoftStrategy(options, verify)                             *)
(***************************************************************************)
AuthorizeEndpoint(tenant) ==
  Str("https://login.microsoftonline.com/" \o tenant.v \o "/oauth2/v2.0/authorize")
TokenEndpoint(tenant) ==
  Str("https://login.microsoftonline.com/" \o tenant.v \o "/oauth2/v2.0/token")

\* A defaulting that derives the token endpoint from "common" whatever the tenant.
DefaultedOptionsCommonToken(options) ==
  LET o0 == Or(options, EmptyObject)
      tenant == Or(Get(o0, "tenant"), Str("common"))
      o1 == Put(o0, "authorizationURL",
                Or(Get(o0, "authorizationURL"), AuthorizeEndpoint(tenant)))
      o2 == Put(o1, "tokenURL", Or(Get(o1, "tokenURL"), TokenEndpoint(Str("common"))))
      o3 == Put(o2, "scopeSeparator", Or(Get(o2, "scopeSeparator"), Str(" ")))
      o4 == Put(o3, "customHeaders", Or(Get(o3, "customHeaders"), EmptyObject))
  IN  Put(o4, "apiEntryPoint",
          Or(Get(o4, "apiEntryPoint"), Str("https://graph.microsoft.com")))

\* The option defaulting of the constructor, up to the call of the base constructor.
DefaultedOptions(options) ==
  LET o0 == Or(options, EmptyObject)
      tenant == Or(Get(o0, "tenant"), Str("common"))
      o1 == Put(o0, "authorizationURL",
                Or(Get(o0, "authorizationURL"), AuthorizeEndpoint(tenant)))
      o2 == Put(o1, "tokenURL", Or(Get(o1, "tokenURL"), TokenEndpoint(tenant)))
      o3 == Put(o2, "scopeSeparator", Or(Get(o2, "scopeSeparator"), Str(" ")))
      o4 == Put(o3, "customHeaders", Or(Get(o3, "customHeaders"), EmptyObject))
  IN  Put(o4, "apiEntryPoint",
          Or(Get(o4, "apiEntryPoint"), Str("https://graph.microsoft.com")))

\* The fields the constructor sets on `this` after the base constructor returned.
Extended(base, o) ==
  [name |-> "microsoft",
   _verify |-> base._verify,
   _scopeSeparator |-> base._scopeSeparator,
   _oauth2 |-> base._oauth2,
   _graphApiVersion |-> Or(Get(o, "graphApiVersion"), Str("v1.0")),
   _addUPNAsEmail |-> IF HasKey(o, "addUPNAsEmail")
                        THEN Get(o, "addUPNAsEmail") ELSE Bool(FALSE),
   _apiEntryPoint |-> Get(o, "apiEntryPoint")]

\* A constructor that sets up `this` without the inherited constructor's checks.
MicrosoftStrategyUnchecked(options, verify) ==
  LET o == DefaultedOptions(options)
  IN  Returned(Extended([_verify |-> verify,
                         _scopeSeparator |-> Get(o, "scopeSeparator"),
                         _oauth2 |-> [_clientId |-> Get(o, "clientID"),
                                      _authorizeUrl |-> Get(o, "authorizationURL"),
                                      _accessTokenUrl |-> Get(o, "tokenURL"),
                                      _customHeaders |-> Get(o, "customHeaders"),
                                      _useAuthorizationHeaderForGET |-> FALSE]], o))

MicrosoftStrategy(options, verify) ==
  LET o == DefaultedOptions(options)
      base == OAuth2Strategy(o, verify)
  IN  IF base.threw THEN base ELSE Returned(Extended(base.self, o))

(***************************************************************************)
(* The constructor calls the model makes.                                  *)
(***************************************************************************)
UrlChoices ==
  [tenant : {Absent, Str(""), Str("contoso")},
   authorizationURL : {Absent, Str(""), Str("https://idp.example/authorize")},
   tokenURL : {Absent, Str("https://idp.example/token")},
   clientID : {Absent, Str("ABC123")}]

ProfileChoices ==
  [clientID : {Str("ABC123")},
   graphApiVersion : {Absent, Str("beta")},
   addUPNAsEmail : {Absent, Undefined, Bool(FALSE), Bool(TRUE), Str("yes")},
   apiEntryPoint : {Absent, Str("https://graph.example")}]

ObjectsOf(choices) == {MkObj(DOMAIN c, c) : c \in choices}

ConstructorOptions == {Undefined} \cup ObjectsOf(UrlChoices) \cup ObjectsOf(ProfileChoices)

ConstructorCalls ==
  (ConstructorOptions \X {Func("verify")})
    \cup ({Undefined, MkObj({"clientID"}, [clientID |-> Str("ABC123")])} \X {Undefined})

\* new MicrosoftStrategy(options, verify)
Construct(options, verify) ==
  /\ Len(constructions) < MaxConstructions
  /\ constructions' = Append(constructions,
        [options |-> options, verify |-> verify,
         result |-> MicrosoftStrategy(options, verify)])
  /\ UNCHANGED <<lastParams, strategy, fetches, started, completed, attempts>>

(***************************************************************************)
(* MicrosoftStrategy.prototype.authorizationParams                         *)
(***************************************************************************)
AuthorizationParamNames == <<"locale", "display", "prompt", "login_hint", "domain_hint">>

\* The forEach over the names: params[name] = options[name] when options[name] is truthy.
RECURSIVE CopyParams(_, _, _)
CopyParams(options, names, params) ==
  IF names = <<>> THEN params
  ELSE LET name == Head(names)
       IN  CopyParams(options, Tail(names),
                      IF Truthy(Get(options, name))
                        THEN Put(params, name, Get(options, name))
                        ELSE params)

\* A copy that tests for the key instead of the value's truthiness.
RECURSIVE CopyPresentParams(_, _, _)
CopyPresentParams(options, names, params) ==
  IF names = <<>> THEN params
  ELSE LET name == Head(names)
       IN  CopyPresentParams(options, Tail(names),
                             IF HasKey(options, name)
                               THEN Put(params, name, Get(options, name))
                               ELSE params)

authorizationParamsPresent(options) ==
  IF options.t \in {"undefined", "null"}
    THEN Threw(TypeError("Cannot read properties of " \o options.t))
    ELSE Returned(CopyPresentParams(options, AuthorizationParamNames, EmptyObject))

\* Reading options[name] of undefined or null raises a TypeError.
authorizationParams(options) ==
  IF options.t \in {"undefined", "null"}
    THEN Threw(TypeError("Cannot read properties of " \o options.t))
    ELSE Returned(CopyParams(options, AuthorizationParamNames, EmptyObject))

ParamChoices ==
  [locale : {Absent, Str(""), Str("en")},
   display : {Absent, Str(""), Null, Bool(FALSE), Str("mobile")},
   prompt : {Absent, Num(0), Str("login")},
   login_hint : {Absent, Undefined, Str("a@b.com")},
   domain_hint : {Absent, Str("contoso.com")}]

OtherKeyChoices ==
  [locale : {Absent, Str("")},
   display : {Absent, Str("mobile")},
   authType : {Absent, Str("reauthenticate")},
   authNonce : {Absent, Str("foo123")},
   foo : {Absent, Str("bar")}]

ParamOptions ==
  {Undefined, Null} \cup ObjectsOf(ParamChoices) \cup ObjectsOf(OtherKeyChoices)

\* strategy.authorizationParams(options)
AuthorizationParams(options) ==
  /\ lastParams' = [called |-> TRUE, options |-> options,
                    result |-> authorizationParams(options)]
  /\ UNCHANGED <<constructions, strategy, fetches, started, completed, attempts>>

(***************************************************************************)
(* Strings of the profile: String.prototype.trim and the isNotEmpty test.  *)
(***************************************************************************)
Chars == {" ", "a"}
WhiteSpace == {" "}

RECURSIVE StringsUpTo(_)
StringsUpTo(n) ==
  IF n = 0 THEN {""}
  ELSE LET shorter == StringsUpTo(n - 1)
       IN  shorter \cup {s \o c : s \in shorter, c \in Chars}

RECURSIVE TrimStart(_)
TrimStart(s) ==
  IF Len(s) > 0 /\ SubSeq(s, 1, 1) \in WhiteSpace
    THEN TrimStart(SubSeq(s, 2, Len(s))) ELSE s

RECURSIVE TrimEnd(_)
TrimEnd(s) ==
  IF Len(s) > 0 /\ SubSeq(s, Len(s), Len(s)) \in WhiteSpace
    THEN TrimEnd(SubSeq(s, 1, Len(s) - 1)) ELSE s

trim(s) == TrimEnd(TrimStart(s))

\* The test without the trim: a blank string counts as not empty.
isNotEmptyUntrimmed(str) ==
  /\ Truthy(str)
  /\ typeof(str) = "string"
  /\ Len(str.v) # 0

\* str => str && typeof str === 'string' && str.trim().length
isNotEmpty(str) ==
  /\ Truthy(str)
  /\ typeof(str) = "string"
  /\ Len(trim(str.v)) # 0

(***************************************************************************)
(* The response of the upstream GET: an error, or a body. A body is either *)
(* text that is not JSON or the JSON text of a value; JSON.parse throws a  *)
(* SyntaxError on the first and returns the value of the second.           *)
(***************************************************************************)
NotJson(text) == [syntax |-> "invalid", text |-> text]
JsonText(value) == [syntax |-> "json", value |-> value]

JSONparse(body) ==
  IF body.syntax = "json"
    THEN Returned(body.value)
    ELSE Threw(SyntaxError("Unexpected token in JSON"))

\* json.k: undefined on a primitive, a TypeError on null (raised by the caller).
Prop(json, k) == IF json.t = "object" THEN Get(json, k) ELSE Undefined

MailValues == {Absent, Null, Num(5)} \cup {Str(s) : s \in StringsUpTo(MaxStrLen)}

JsonChoices ==
  [id : {Absent, Str("1")},
   displayName : {Absent, Str("A B")},
   surname : {Str("B")},
   givenName : {Str("A")},
   mail : MailValues,
   userPrincipalName : MailValues]

JsonValues == {Null, Str("ok")} \cup ObjectsOf(JsonChoices)

Bodies == {NotJson(""), NotJson("<html>")} \cup {JsonText(j) : j \in JsonValues}

TransportErrors ==
  {Obj([statusCode |-> Num(401), data |-> Str("Unauthorized")]),
   Obj([code |-> Str("ECONNRESET")])}

\* (err, body) as the OAuth 2.0 client hands them to the callback of get().
Responses ==
  {[err |-> e, body |-> Undefined] : e \in TransportErrors}
    \cup {[err |-> Null, body |-> b] : b \in Bodies}

\* Whether the caller's done throws on its first and on its second invocation.
DoneBehaviours == [{1, 2} -> BOOLEAN]

(***************************************************************************)
(* MicrosoftStrategy.prototype.userProfile and the callback it hands to    *)
(* strategy._oauth2.get                                                    *)
(***************************************************************************)
\* The body of the try block up to (not including) done(null, profile).
BuildProfile(self, body, json) ==
  IF json.t \in {"null", "undefined"}
    THEN Threw(TypeError("Cannot read properties of " \o json.t))
    ELSE LET mail == Prop(json, "mail")
             upn == Prop(json, "userPrincipalName")
             e1 == IF isNotEmpty(mail)
                     THEN <<[type |-> "work", value |-> mail]>> ELSE <<>>
             e2 == IF Truthy(self._addUPNAsEmail) /\ isNotEmpty(upn)
                     THEN Append(e1, [type |-> "work", value |-> upn]) ELSE e1
         IN  Returned([provider |-> "microsoft",
                       name |-> [familyName |-> Prop(json, "surname"),
                                 givenName |-> Prop(json, "givenName")],
                       id |-> Prop(json, "id"),
                       displayName |-> Prop(json, "displayName"),
                       userPrincipalName |-> upn,
                       emails |-> e2,
                       _raw |-> body,
                       _json |-> json])

Escaped(throws, n) == IF throws[n] THEN <<CallbackError(n)>> ELSE <<>>

\* The arguments of done(new InternalOAuthError('failed to fetch user profile', err)),
\* and the same with the cause dropped.
FetchFailedWithoutCause(err) ==
  <<InternalOAuthError("failed to fetch user profile", Undefined)>>
FetchFailed(err) == <<InternalOAuthError("failed to fetch user profile", err)>>

\* The arguments of done(e) in the catch block, and the same with e wrapped.
CaughtWrapped(e) == <<InternalOAuthError("failed to fetch user profile", e)>>
Caught(e) == <<e>>

\* The handler without its try/catch: what JSON.parse or the mapping throws leaves it.
ResponseHandlerNoTry(self, err, body, doneThrows) ==
  IF Truthy(err)
    THEN [calls |-> <<FetchFailed(err)>>, parsed |-> FALSE,
          escaped |-> Escaped(doneThrows, 1)]
    ELSE LET json == JSONparse(body)
             built == IF json.threw THEN json ELSE BuildProfile(self, body, json.self)
         IN  IF built.threw
               THEN [calls |-> <<>>, parsed |-> TRUE, escaped |-> <<built.error>>]
               ELSE [calls |-> << <<Null, built.self>> >>, parsed |-> TRUE,
                     escaped |-> Escaped(doneThrows, 1)]

\* function (err, body, res) { ... }: the invocations of done in order (each its
\* argument list), whether JSON.parse ran, and the exception that left the handler.
ResponseHandler(self, err, body, doneThrows) ==
  IF Truthy(err)
    THEN \* return done(new InternalOAuthError(...)): outside the try
         [calls |-> <<FetchFailed(err)>>,
          parsed |-> FALSE,
          escaped |-> Escaped(doneThrows, 1)]
    ELSE LET json == JSONparse(body)
             built == IF json.threw THEN json ELSE BuildProfile(self, body, json.self)
         IN  IF built.threw
               THEN \* catch (e) { done(e); }
                    [calls |-> <<Caught(built.error)>>,
                     parsed |-> TRUE,
                     escaped |-> Escaped(doneThrows, 1)]
             ELSE IF ~doneThrows[1]
               THEN [calls |-> << <<Null, built.self>> >>,
                     parsed |-> TRUE,
                     escaped |-> <<>>]
             ELSE \* done(null, profile) threw inside the try: catch (e) { done(e); }
                    [calls |-> << <<Null, built.self>>, Caught(CallbackError(1)) >>,
                     parsed |-> TRUE,
                     escaped |-> Escaped(doneThrows, 2)]

Idle == [pc |-> "idle"]

\* The body of userProfile: the Authorization header is switched on for GETs and
\* the GET of {apiEntryPoint}/{graphApiVersion}/me/ is issued with the access token.
StartFetch(f, accessToken) ==
  /\ fetches[f].pc = "idle"
  /\ strategy' = [strategy EXCEPT !._oauth2._useAuthorizationHeaderForGET = TRUE]
  /\ fetches' = [fetches EXCEPT ![f] =
        [pc |-> "pending",
         url |-> strategy._apiEntryPoint.v \o "/" \o strategy._graphApiVersion.v \o "/me/",
         accessToken |-> accessToken]]
  /\ started' = Append(started, f)

\* A handler that keeps the first response it saw and builds every later
\* result from it (state shared across invocations).
HandledFromFirst(f, r, doneThrows) ==
  LET r0 == IF completed = <<>> THEN r ELSE fetches[completed[1]].response
  IN  [pc |-> "done",
       url |-> fetches[f].url,
       accessToken |-> fetches[f].accessToken,
       response |-> r,
       doneThrows |-> doneThrows,
       outcome |-> ResponseHandler(strategy, r0.err, r0.body, doneThrows)]

\* The record of a fetch whose response r has been handled.
Handled(f, r, doneThrows) ==
  [pc |-> "done",
   url |-> fetches[f].url,
   accessToken |-> fetches[f].accessToken,
   response |-> r,
   doneThrows |-> doneThrows,
   outcome |-> ResponseHandler(strategy, r.err, r.body, doneThrows)]

\* strategy.userProfile(accessToken, done), called with a done of the caller's
UserProfile(f, accessToken) ==
  /\ StartFetch(f, accessToken)
  /\ UNCHANGED <<constructions, lastParams, completed, attempts>>

\* The OAuth 2.0 client calls fetch f's callback with the response r.
Respond(f, r, doneThrows) ==
  /\ fetches[f].pc = "pending"
  /\ fetches' = [fetches EXCEPT ![f] = Handled(f, r, doneThrows)]
  /\ completed' = Append(completed, f)
  /\ UNCHANGED <<constructions, lastParams, strategy, started, attempts>>

(***************************************************************************)
(* The inherited authenticate() on a callback request that carries a code: *)
(* the code is exchanged for tokens; a failed exchange ends the attempt    *)
(* with the client's TokenError, a successful one loads the profile with   *)
(* userProfile and hands it to the verify callback.                        *)
(***************************************************************************)
TokenError(message, code) ==
  [name |-> "TokenError", message |-> message,
   code |-> Or(code, Str("invalid_request"))]

\* The error payloads of the token endpoint: not conforming to OAuth 2.0, and conforming.
TokenErrorPayloads ==
  {Obj([error |-> Obj([message |-> Str("Invalid verification code format."),
                       type |-> Str("OAuthException"),
                       code |-> Num(100)])]),
   Obj([error |-> Str("invalid_grant"),
        error_description |->
          Str("The provided value for the input parameter 'code' is not valid.")])}

TokenResults ==
  {[err |-> Obj([statusCode |-> Num(400), data |-> JsonText(p)])] : p \in TokenErrorPayloads}
    \cup {[err |-> Null, accessToken |-> "access-token", refreshToken |-> "refresh-token"]}

\* An error mapping that reports every failed exchange as a generic internal error.
parseErrorResponseGeneric(data) ==
  InternalOAuthError("Failed to obtain access token", data)

\* parseErrorResponse(err.data, err.statusCode) of the OAuth 2.0 strategy
parseErrorResponse(data) ==
  LET json == JSONparse(data).self
  IN  TokenError(Get(json, "error_description"), Get(json, "error"))

\* authenticate() of a request whose query carries `code`
Authenticate(a, code) ==
  /\ attempts[a].pc = "idle"
  /\ fetches[a].pc = "idle"
  /\ attempts' = [attempts EXCEPT ![a] = [pc |-> "exchanging", code |-> code]]
  /\ UNCHANGED <<constructions, lastParams, strategy, fetches, started, completed>>

\* The callback of getOAuthAccessToken(code, params, callback)
TokenResponse(a, r) ==
  /\ attempts[a].pc = "exchanging"
  /\ IF Truthy(r.err)
       THEN /\ attempts' = [attempts EXCEPT ![a] =
                  [pc |-> "error", code |-> attempts[a].code, exchange |-> r,
                   error |-> parseErrorResponse(r.err.v.data), verifyCalls |-> 0]]
            /\ UNCHANGED <<strategy, fetches, started>>
       ELSE /\ attempts' = [attempts EXCEPT ![a] =
                  [pc |-> "loading", code |-> attempts[a].code, exchange |-> r,
                   verifyCalls |-> 0]]
            /\ StartFetch(a, r.accessToken)
  /\ UNCHANGED <<constructions, lastParams, completed>>

\* The profile response of an attempt: done is the strategy's own callback, which
\* does not throw; it ends the attempt with the error or calls verify with the profile.
ProfileLoaded(a, r) ==
  /\ attempts[a].pc = "loading"
  /\ fetches[a].pc = "pending"
  /\ LET h == Handled(a, r, [n \in {1, 2} |-> FALSE])
         args == h.outcome.calls[1]
     IN  /\ fetches' = [fetches EXCEPT ![a] = h]
         /\ attempts' = [attempts EXCEPT ![a] =
               IF Len(args) = 1
                 THEN [pc |-> "error", code |-> attempts[a].code,
                       exchange |-> attempts[a].exchange,
                       error |-> args[1], verifyCalls |-> 0]
                 ELSE [pc |-> "verifying", code |-> attempts[a].code,
                       exchange |-> attempts[a].exchange,
                       profile |-> args[2], verifyCalls |-> 1]]
  /\ completed' = Append(completed, a)
  /\ UNCHANGED <<constructions, lastParams, strategy, started>>

\* verified(err, user, info), called back by the application's verify
Verified(a, result) ==
  /\ attempts[a].pc = "verifying"
  /\ attempts' = [attempts EXCEPT ![a] = [@ EXCEPT !.pc = result]]
  /\ UNCHANGED <<constructions, lastParams, strategy, fetches, started, completed>>

(***************************************************************************)
(* Specifications.                                                         *)
(***************************************************************************)
NoStrategy == [name |-> "none"]

\* The strategies the fetches run on: constructed by the constructor.
FetchChoices ==
  {c \in ProfileChoices : (c.graphApiVersion = Absent) = (c.apiEntryPoint = Absent)}
ProfileStrategies ==
  {MicrosoftStrategy(o, Func("verify")).self : o \in ObjectsOf(FetchChoices)}

Quiet ==
  /\ constructions = <<>>
  /\ lastParams = [called |-> FALSE]
  /\ fetches = [f \in 1..MaxFetches |-> Idle]
  /\ started = <<>>
  /\ completed = <<>>
  /\ attempts = [a \in 1..MaxFetches |-> Idle]

\* Constructions of strategies.
InitConstruct == Quiet /\ strategy = NoStrategy
NextConstruct == \E c \in ConstructorCalls : Construct(c[1], c[2])
SpecConstruct == InitConstruct /\ [][NextConstruct]_vars

\* Calls of authorizationParams.
NextParams == \E o \in ParamOptions : AuthorizationParams(o)
SpecParams == InitConstruct /\ [][NextParams]_vars

\* One profile fetch, over every response and every behaviour of done.
AccessTokens == {"token-1"}
InitProfile == Quiet /\ strategy \in ProfileStrategies
NextProfile ==
  \/ \E t \in AccessTokens : UserProfile(1, t)
  \/ \E r \in Responses, d \in DoneBehaviours : Respond(1, r, d)
SpecProfile == InitProfile /\ [][NextProfile]_vars

\* Several profile fetches in flight on one strategy, answered in any order.
FewResponses ==
  {[err |-> Obj([code |-> Str("ECONNRESET")]), body |-> Undefined],
   [err |-> Null, body |-> NotJson("<html>")],
   [err |-> Null, body |-> JsonText(Obj([id |-> Str("1"), mail |-> Str("a")]))],
   [err |-> Null, body |-> JsonText(Obj([id |-> Str("2"), userPrincipalName |-> Str("aa")]))]}
FewBehaviours == {[n \in {1, 2} |-> FALSE], [n \in {1, 2} |-> n = 1]}
NextConcurrent ==
  \/ \E f \in 1..MaxFetches, t \in AccessTokens : UserProfile(f, t)
  \/ \E f \in 1..MaxFetches, r \in FewResponses, d \in FewBehaviours : Respond(f, r, d)
SpecConcurrent == InitProfile /\ [][NextConcurrent]_vars

\* Authentication attempts on callback requests.
NextAuth ==
  \/ \E a \in 1..MaxFetches : Authenticate(a, "SplxlOBeZQQYbYS6WxSbIA+ALT1")
  \/ \E a \in 1..MaxFetches, r \in TokenResults : TokenResponse(a, r)
  \/ \E a \in 1..MaxFetches, r \in FewResponses : ProfileLoaded(a, r)
  \/ \E a \in 1..MaxFetches, v \in {"success", "fail", "verify-error"} : Verified(a, v)
SpecAuth == InitProfile /\ [][NextAuth]_vars

Next == NextConstruct \/ NextParams \/ NextProfile \/ NextConcurrent \/ NextAuth
Spec == InitProfile /\ [][Next]_vars

(***************************************************************************)
(* Properties.                                                             *)
(***************************************************************************)
DoneFetches == {f \in DOMAIN fetches : fetches[f].pc = "done"}
Calls(f) == fetches[f].outcome.calls
Constructed == {i \in DOMAIN constructions : ~constructions[i].result.threw}

\* C1: every userProfile invocation whose response arrived has invoked done exactly
\* once, whatever the response and whether or not done throws.
C1_DoneExactlyOnce ==
  \A f \in DoneFetches : Len(Calls(f)) = 1

\* C2: a construction with options undefined throws an error from the constructor
\* and yields no strategy object.
C2_UndefinedOptionsThrow ==
  \A i \in DOMAIN constructions :
    constructions[i].options = Undefined =>
      /\ constructions[i].result.threw
      /\ "self" \notin DOMAIN constructions[i].result
      /\ constructions[i].result.error.name = "TypeError"

C2_Witness ==
  \E i \in DOMAIN constructions :
    /\ constructions[i].options = Undefined
    /\ constructions[i].verify = Func("verify")
    /\ constructions[i].result.threw

\* C3: for an options mapping, authorizationParams returns a non-null mapping whose
\* keys are exactly the names among locale, display, prompt, login_hint, domain_hint
\* with a truthy value in options, each value copied unchanged, and does not throw.
AllowedParams == {"locale", "display", "prompt", "login_hint", "domain_hint"}
C3_AuthorizationParams ==
  (lastParams.called /\ lastParams.options.t = "object") =>
    /\ ~lastParams.result.threw
    /\ lastParams.result.self.t = "object"
    /\ DOMAIN lastParams.result.self.v =
         {k \in AllowedParams : Truthy(Get(lastParams.options, k))}
    /\ \A k \in DOMAIN lastParams.result.self.v :
         lastParams.result.self.v[k] = lastParams.options.v[k]
    /\ \A k \in DOMAIN lastParams.options.v \ AllowedParams :
         ~HasKey(lastParams.result.self, k)

C3_Witness ==
  /\ lastParams.called
  /\ lastParams.options.t = "object"
  /\ Get(lastParams.options, "display") = Str("mobile")
  /\ Get(lastParams.options, "foo") = Str("bar")
  /\ Get(lastParams.options, "locale") = Str("")
  /\ lastParams.result = Returned(Obj([display |-> Str("mobile")]))

\* C4 as stated: every constructed strategy's authorization and token URLs are the
\* tenant's endpoints, the tenant being the one in the options ("common" when the
\* options have none), unless the options have an authorizationURL or tokenURL,
\* which is then used verbatim.
C4_EndpointsFromGivenOptions ==
  \A i \in Constructed :
    LET o == constructions[i].options
        client == constructions[i].result.self._oauth2
        T == IF HasKey(o, "tenant") THEN Get(o, "tenant").v ELSE "common"
    IN  /\ client._authorizeUrl =
             IF HasKey(o, "authorizationURL") THEN Get(o, "authorizationURL")
             ELSE Str("https://login.microsoftonline.com/" \o T \o "/oauth2/v2.0/authorize")
        /\ client._accessTokenUrl =
             IF HasKey(o, "tokenURL") THEN Get(o, "tokenURL")
             ELSE Str("https://login.microsoftonline.com/" \o T \o "/oauth2/v2.0/token")

\* C4 as amended: the tenant is the one in the options when that is truthy (not
\* the empty string) and "common" otherwise, and an authorizationURL or tokenURL of
\* the options is used verbatim when it is truthy, each on its own.
C4_EndpointsFromTruthyOptions ==
  \A i \in Constructed :
    LET o == constructions[i].options
        client == constructions[i].result.self._oauth2
        T == IF Truthy(Get(o, "tenant")) THEN Get(o, "tenant").v ELSE "common"
    IN  /\ client._authorizeUrl =
             IF Truthy(Get(o, "authorizationURL")) THEN Get(o, "authorizationURL")
             ELSE Str("https://login.microsoftonline.com/" \o T \o "/oauth2/v2.0/authorize")
        /\ client._accessTokenUrl =
             IF Truthy(Get(o, "tokenURL")) THEN Get(o, "tokenURL")
             ELSE Str("https://login.microsoftonline.com/" \o T \o "/oauth2/v2.0/token")

C4_Witness ==
  /\ Len(constructions) = MaxConstructions
  /\ \E i \in Constructed :
       /\ Get(constructions[i].options, "tenant") = Str("contoso")
       /\ ~HasKey(constructions[i].options, "authorizationURL")
       /\ ~HasKey(constructions[i].options, "tokenURL")
  /\ \E i \in Constructed :
       /\ ~HasKey(constructions[i].options, "tenant")
       /\ Get(constructions[i].options, "authorizationURL") = Str("https://idp.example/authorize")
       /\ constructions[i].result.self._oauth2._accessTokenUrl =
            Str("https://login.microsoftonline.com/common/oauth2/v2.0/token")

\* C5: the emails of a delivered profile are the work entry of mail exactly when
\* mail is a string with a non-whitespace character, followed by the work entry of
\* userPrincipalName exactly when the flag is enabled and userPrincipalName is such
\* a string; nothing else.
NonBlank(x) ==
  /\ x.t = "string"
  /\ \E i \in 1..Len(x.v) : SubSeq(x.v, i, i) \notin WhiteSpace
Work(x) == [type |-> "work", value |-> x]
C5_Emails ==
  \A f \in DoneFetches :
    Len(Calls(f)[1]) = 2 =>
      LET json == fetches[f].response.body.value
          mail == Prop(json, "mail")
          upn == Prop(json, "userPrincipalName")
      IN  Calls(f)[1][2].emails =
            (IF NonBlank(mail) THEN <<Work(mail)>> ELSE <<>>)
              \o (IF Truthy(strategy._addUPNAsEmail) /\ NonBlank(upn)
                    THEN <<Work(upn)>> ELSE <<>>)

C5_Witness ==
  \E f \in DoneFetches :
    /\ Len(Calls(f)[1]) = 2
    /\ strategy._addUPNAsEmail = Bool(TRUE)
    /\ Prop(fetches[f].response.body.value, "mail") = Str(" ")
    /\ Prop(fetches[f].response.body.value, "userPrincipalName") = Str("a ")
    /\ Calls(f)[1][2].emails = <<Work(Str("a "))>>

\* C6: on a transport error done is invoked with an InternalOAuthError 'failed to
\* fetch user profile' whose cause is the transport error, with no profile, and the
\* body is not parsed.
C6_TransportError ==
  \A f \in DoneFetches :
    Truthy(fetches[f].response.err) =>
      /\ Len(Calls(f)) >= 1
      /\ Len(Calls(f)[1]) = 1
      /\ Calls(f)[1][1].name = "InternalOAuthError"
      /\ Calls(f)[1][1].message = "failed to fetch user profile"
      /\ Calls(f)[1][1].oauthError = fetches[f].response.err
      /\ \A i \in DOMAIN Calls(f) : Len(Calls(f)[i]) = 1
      /\ ~fetches[f].outcome.parsed

C6_Witness ==
  \E f \in DoneFetches :
    /\ fetches[f].response.err = Obj([code |-> Str("ECONNRESET")])
    /\ fetches[f].doneThrows[1]
    /\ Calls(f)[1][1].oauthError = Obj([code |-> Str("ECONNRESET")])

\* C7: when the body is not valid JSON done is invoked with the parse exception
\* itself, not wrapped in an InternalOAuthError, and with no profile.
C7_ParseError ==
  \A f \in DoneFetches :
    (~Truthy(fetches[f].response.err) /\ fetches[f].response.body.syntax = "invalid") =>
      /\ Len(Calls(f)) >= 1
      /\ Len(Calls(f)[1]) = 1
      /\ Calls(f)[1][1].name = "SyntaxError"
      /\ "oauthError" \notin DOMAIN Calls(f)[1][1]
      /\ \A i \in DOMAIN Calls(f) : Len(Calls(f)[i]) = 1

C7_Witness ==
  \E f \in DoneFetches :
    /\ fetches[f].response = [err |-> Null, body |-> NotJson("<html>")]
    /\ Calls(f) = << <<SyntaxError("Unexpected token in JSON")>> >>

\* C8: every invocation of done carries either an error and no profile or null and
\* a complete profile, and only an exception of done itself leaves the handler:
\* transport, parse and mapping errors are passed to done.
ProfileFields ==
  {"provider", "name", "id", "displayName", "userPrincipalName", "emails", "_raw", "_json"}
IsError(x) == "name" \in DOMAIN x /\ "message" \in DOMAIN x
C8_ErrorOrProfile ==
  \A f \in DoneFetches :
    /\ Len(Calls(f)) >= 1
    /\ \A i \in DOMAIN Calls(f) :
         \/ Len(Calls(f)[i]) = 1 /\ IsError(Calls(f)[i][1])
         \/ /\ Len(Calls(f)[i]) = 2
            /\ Calls(f)[i][1] = Null
            /\ DOMAIN Calls(f)[i][2] = ProfileFields
            /\ Calls(f)[i][2].provider = "microsoft"
    /\ \A i \in DOMAIN fetches[f].outcome.escaped :
         fetches[f].outcome.escaped[i].name = "CallbackError"

C8_Witness ==
  \E f \in DoneFetches :
    /\ fetches[f].response.body = JsonText(Null)
    /\ Calls(f)[1][1].name = "TypeError"
    /\ fetches[f].outcome.escaped = <<>>

\* C9: an attempt whose token exchange failed ends in the error outcome with the
\* TokenError of the token endpoint's error and error_description; userProfile and
\* verify are not invoked for it.
C9_TokenErrorPassesThrough ==
  \A a \in DOMAIN attempts :
    ("exchange" \in DOMAIN attempts[a] /\ Truthy(attempts[a].exchange.err)) =>
      LET payload == attempts[a].exchange.err.v.data.value
      IN  /\ attempts[a].pc = "error"
          /\ attempts[a].error.name = "TokenError"
          /\ attempts[a].error.message = Get(payload, "error_description")
          /\ attempts[a].error.code = Get(payload, "error")
          /\ attempts[a].verifyCalls = 0
          /\ fetches[a].pc = "idle"
          /\ \A i \in DOMAIN started : started[i] # a

C9_Witness ==
  /\ attempts[1].pc = "error"
  /\ Truthy(attempts[1].exchange.err)
  /\ attempts[1].error.code = Str("invalid_grant")
  /\ attempts[2].pc = "verifying"

\* C10: with several fetches in flight on one strategy, answered in any order, what
\* each done receives is built from its own fetch's response, and no step changes
\* the strategy's API entry point, API version or alternate-email flag.
ConfigOf(s) == <<s._apiEntryPoint, s._graphApiVersion, s._addUPNAsEmail>>
OwnResponse(f) ==
  LET r == fetches[f].response
      first == Calls(f)[1]
  IN  /\ Truthy(r.err) => (Len(first) = 1 /\ first[1].oauthError = r.err)
      /\ (~Truthy(r.err) /\ r.body.syntax = "invalid") =>
           (Len(first) = 1 /\ first[1].name = "SyntaxError")
      /\ (~Truthy(r.err) /\ r.body.syntax = "json") =>
           /\ Len(first) = 2
           /\ first[2]._raw = r.body
           /\ first[2].id = Prop(r.body.value, "id")
           /\ first[2].userPrincipalName = Prop(r.body.value, "userPrincipalName")
OwnResponses == \A f \in DoneFetches : OwnResponse(f)
C10_NoSharedState ==
  [][ConfigOf(strategy') = ConfigOf(strategy) /\ OwnResponses']_vars

C10_Witness ==
  /\ {1, 2} \subseteq DoneFetches
  /\ SubSeq(started, 1, 2) = <<1, 2>>
  /\ SubSeq(completed, 1, 2) = <<2, 1>>
  /\ Truthy(fetches[1].response.err)
  /\ Len(Calls(2)[1]) = 2
  /\ Calls(2)[1][2].id = Str("2")
  /\ strategy._oauth2._useAuthorizationHeaderForGET

====
